---- MODULE Spec2Model ----
(***************************************************************************)
(* Model of the Goose task server (src/goose_server.py): the in-memory     *)
(* task registry TASKS guarded by TASKS_LOCK, the HTTP handler threads     *)
(* (TaskHandler.do_GET / do_POST) and one worker thread per admitted task  *)
(* (run_task).  Every statement that touches shared state is one step, so  *)
(* the interleavings of handlers and workers are those of the threads.     *)
(***************************************************************************)
EXTENDS Integers, Sequences, FiniteSets, TLC

(* ------------------------------ bounds -------------------------------- *)
\* number of submissions admitted in one run (each starts one worker)
MaxTasks == 2
\* number of HTTP handler threads serving requests at the same time
NumHandlers == 1
\* the wall clock runs from 0 to MaxClock seconds
MaxClock == 2
\* number of names tempfile can hand out for isolated directories
MaxDirs == 2

(* ------------------------- program constants -------------------------- *)
DEFAULT_MAX_TURNS == 40
DEFAULT_MAX_TOOL_REPETITIONS == 3
DEFAULT_TIMEOUT_SECONDS == 300
TERMINAL_STATUSES == {"completed", "failed"}
\* exit code written when subprocess.run raises TimeoutExpired
TIMEOUT_EXIT_CODE == 124
\* exit code written when subprocess.run raises any other exception
LAUNCH_ERROR_EXIT_CODE == 0 - 1

(* --------------------------- Python values ---------------------------- *)
\* Values are tagged with their Python type, so that None, numbers, text
\* and bytes can be stored in the same field and compared.
None == [type |-> "NoneType"]
\* a key that is not in the request payload at all
Absent == [type |-> "absent"]
IntVal(n) == [type |-> "int", i |-> n]
\* text whose characters matter (task text, paths, timeout given as text)
Str(s) == [type |-> "str", s |-> s]
\* fixed text
Msg(m) == [type |-> "str", m |-> m]
\* bytes object (partial output carried by subprocess.TimeoutExpired)
Bytes(b) == [type |-> "bytes", b |-> b]
\* any JSON value that is neither text, number nor null (a list)
JsonList == [type |-> "list"]

IsStr(v) == v.type = "str"

\* characters str.strip() removes
Whitespace == {" ", "\t", "\n"}

RECURSIVE lstrip(_)
lstrip(s) ==
    IF s = <<>> THEN <<>>
    ELSE IF Head(s) \in Whitespace THEN lstrip(Tail(s))
    ELSE s

RECURSIVE rstrip(_)
rstrip(s) ==
    IF s = <<>> THEN <<>>
    ELSE IF s[Len(s)] \in Whitespace THEN rstrip(SubSeq(s, 1, Len(s) - 1))
    ELSE s

\* strip that trims the left end only
strip_LeftOnly(s) == lstrip(s)

\* str.strip()
strip(s) == rstrip(lstrip(s))

\* str(v) of a value of the record
PyStr(v) == [type |-> "str", of |-> v]

\* the fixed text build_task_prompt puts after the task, line by line
guardrails ==
    <<"Important execution requirements:\n",
      "- Apply changes directly to files in the working directory.\n",
      "- Do not delegate, do not spawn background subtasks, and do not use app generators.\n",
      "- Use direct file edit and shell tools only.\n",
      "- After editing, verify by reading the target file(s).\n">>

\* f"{task_text.strip()}\n\n{guardrails}"
build_task_prompt(task_text) == strip(task_text) \o <<"\n", "\n">> \o guardrails

DigitValue(c) ==
    CASE c = "0" -> 0
      [] c = "5" -> 5
      [] c = "7" -> 7
      [] OTHER -> 0 - 1

RECURSIVE DecimalValue(_)
DecimalValue(s) ==
    IF s = <<>> THEN 0
    ELSE 10 * DecimalValue(SubSeq(s, 1, Len(s) - 1)) + DigitValue(s[Len(s)])

AllDigits(s) == s # <<>> /\ \A k \in 1..Len(s) : DigitValue(s[k]) >= 0

\* int(v): [ok |-> TRUE, i |-> n], or [ok |-> FALSE, exc |-> name] when
\* int() raises (ValueError for text that is not a number, TypeError for
\* None and for lists).
PyInt(v) ==
    CASE v.type = "int" -> [ok |-> TRUE, i |-> v.i, exc |-> "none"]
      [] v.type = "str" ->
            IF AllDigits(strip(v.s))
            THEN [ok |-> TRUE, i |-> DecimalValue(strip(v.s)), exc |-> "none"]
            ELSE [ok |-> FALSE, i |-> 0, exc |-> "ValueError"]
      [] OTHER -> [ok |-> FALSE, i |-> 0, exc |-> "TypeError"]

\* utc_now(): the wall clock formatted to the second
utc_now(c) == [type |-> "str", t |-> c]

\* json.dumps accepts every value that came from JSON; it raises TypeError
\* on bytes.
JsonSerializable(v) == v.type # "bytes"

(* ------------------------- filesystem, requests ------------------------ *)
\* Path.cwd() of the server process
ServerCwd == <<"/", "s">>
\* a project checkout that exists on disk
ProjectDir == <<"/", "p">>
\* a path that does not exist on disk
MissingDir == <<"/", "x">>
ExistingPaths == {ServerCwd, ProjectDir}
\* Path(p).exists()
PathExists(p) == p \in ExistingPaths

\* task identifiers; 0 stands for an identifier that uuid4 never returns
Ids == 1..MaxTasks
Handlers == 1..NumHandlers
Workers == 1..MaxTasks
\* names tempfile.mkdtemp can give to a directory; 0 is "no directory"
DirNames == 1..MaxDirs

Payload(task, wd, model, turns, reps, timeout) ==
    [task |-> task, working_directory |-> wd, model |-> model,
     max_turns |-> turns, max_tool_repetitions |-> reps,
     timeout_seconds |-> timeout]

GoodTask == Str(<<"a", " ", "b">>)

\* request payloads that do_POST rejects
RejectedPayloads ==
    { Payload(t, Absent, Absent, Absent, Absent, Absent) :
        t \in {Absent, None, IntVal(5), Str(<<>>), Str(<<" ">>)} }
    \cup
    { Payload(GoodTask, wd, Absent, Absent, Absent, Absent) :
        wd \in {IntVal(5), JsonList, Str(<<>>), Str(<<" ">>), Str(MissingDir)} }

\* request payloads that do_POST admits
AdmittedPayloads ==
    { Payload(GoodTask, Absent, Absent, Absent, Absent, Absent),
      Payload(Str(<<"\n", " ", "a", " ", "b", " ", "\t">>), Str(ProjectDir),
              Str(<<"a">>), IntVal(5),
              Absent, Str(<<"7">>)),
      Payload(GoodTask, None, None, Absent, Absent, None) }

Payloads == RejectedPayloads \cup AdmittedPayloads

\* request bodies: not JSON, JSON that is not an object, a JSON object
Bodies ==
    { [kind |-> "malformed"], [kind |-> "nonobject"] }
    \cup { [kind |-> "object", payload |-> p] : p \in Payloads }

\* dict.get(key) and dict.get(key, default)
PayloadGet(payload, key) ==
    IF payload[key] = Absent THEN None ELSE payload[key]
PayloadGetDefault(payload, key, default) ==
    IF payload[key] = Absent THEN default ELSE payload[key]

(* ------------------------------ responses ------------------------------ *)
NoResponse == [code |-> 0, kind |-> "none"]
\* the handler ended with an unhandled exception: nothing is sent
UnhandledException == [code |-> 0, kind |-> "exception"]
ErrorResponse(code, msg) == [code |-> code, kind |-> "error", error |-> msg]
HealthResponse == [code |-> 200, kind |-> "health", status |-> "ok"]
TaskResponse(rec) == [code |-> 200, kind |-> "task", task |-> rec]
TasksResponse(recs) == [code |-> 200, kind |-> "tasks", tasks |-> recs]
AcceptedResponse(id) ==
    [code |-> 202, kind |-> "accepted", task_id |-> id, status |-> "queued"]

\* the record do_POST builds for an admitted payload
NewRecord(id, payload, wd, created, updated) ==
    [task_id |-> id,
     task |-> payload.task,
     model |-> PayloadGet(payload, "model"),
     max_turns |-> PayloadGetDefault(payload, "max_turns", IntVal(DEFAULT_MAX_TURNS)),
     max_tool_repetitions |->
        PayloadGetDefault(payload, "max_tool_repetitions",
                          IntVal(DEFAULT_MAX_TOOL_REPETITIONS)),
     timeout_seconds |->
        PayloadGetDefault(payload, "timeout_seconds", IntVal(DEFAULT_TIMEOUT_SECONDS)),
     status |-> "queued",
     working_directory |-> Str(wd),
     created_at |-> created,
     updated_at |-> updated,
     started_at |-> None,
     completed_at |-> None,
     exit_code |-> None,
     stdout |-> None,
     stderr |-> None,
     error |-> None]

\* PostValidate without the check that the working directory exists
PostValidate_NoExistsCheck(body) ==
    IF body.kind = "malformed"
    THEN [verdict |-> "reject", response |-> ErrorResponse(400, "invalid json")]
    ELSE IF body.kind = "nonobject"
    THEN [verdict |-> "reject", response |-> UnhandledException]
    ELSE LET payload == body.payload
             task_text == PayloadGet(payload, "task")
             requested_cwd == PayloadGet(payload, "working_directory")
         IN  IF ~IsStr(task_text) \/ strip(task_text.s) = <<>>
             THEN [verdict |-> "reject",
                   response |-> ErrorResponse(400, "field 'task' is required")]
             ELSE IF requested_cwd # None
                     /\ ~(IsStr(requested_cwd) /\ strip(requested_cwd.s) # <<>>)
             THEN [verdict |-> "reject",
                   response |-> ErrorResponse(400,
                        "working_directory must be a non-empty string")]
             ELSE [verdict |-> "admit",
                   wd |-> IF requested_cwd = None THEN ServerCwd
                          ELSE requested_cwd.s]

\* The checks of do_POST on a body, in the order of the code.  The result is
\* the response of a rejected request, or "admit" with the working directory.
PostValidate(body) ==
    IF body.kind = "malformed"
    THEN [verdict |-> "reject", response |-> ErrorResponse(400, "invalid json")]
    ELSE IF body.kind = "nonobject"
    THEN [verdict |-> "reject", response |-> UnhandledException]
    ELSE LET payload == body.payload
             task_text == PayloadGet(payload, "task")
             requested_cwd == PayloadGet(payload, "working_directory")
         IN  IF ~IsStr(task_text) \/ strip(task_text.s) = <<>>
             THEN [verdict |-> "reject",
                   response |-> ErrorResponse(400, "field 'task' is required")]
             ELSE IF requested_cwd # None
                     /\ ~(IsStr(requested_cwd) /\ strip(requested_cwd.s) # <<>>)
             THEN [verdict |-> "reject",
                   response |-> ErrorResponse(400,
                        "working_directory must be a non-empty string")]
             ELSE LET working_directory ==
                        IF requested_cwd = None THEN ServerCwd
                        ELSE requested_cwd.s
                  IN  IF ~PathExists(working_directory)
                      THEN [verdict |-> "reject",
                            response |-> ErrorResponse(400,
                                "working_directory does not exist")]
                      ELSE [verdict |-> "admit", wd |-> working_directory]

(* ------------------------------- state --------------------------------- *)
VARIABLES
    TASKS,        \* the registry: records in insertion order, keyed by task_id
    TASKS_LOCK,   \* <<>> when free, else the thread that holds it
    handler,      \* per handler thread: position and locals of the request
    response,     \* per handler thread: the response sent by the last step
    worker,       \* per worker thread: position and locals of run_task
    child,        \* per worker thread: the goose child process
    tmpdirs,      \* temporary directories that exist on disk
    clock,        \* wall clock, seconds
    accepted,     \* task_ids of the 202 responses sent so far, in order
    observed      \* per task_id: the record in the response that the client
                  \* took as the result of the task, None before it

vars == <<TASKS, TASKS_LOCK, handler, response, worker, child, tmpdirs,
          clock, accepted, observed>>

HandlerThread(h) == <<"handler", h>>
WorkerThread(w) == <<"worker", w>>
LockFree == <<>>

(* --------------------------- registry (dict) --------------------------- *)
HasTask(tasks, id) == \E k \in 1..Len(tasks) : tasks[k].task_id = id
IndexOf(tasks, id) == CHOOSE k \in 1..Len(tasks) : tasks[k].task_id = id
\* TASKS[id]
TasksGet(tasks, id) == tasks[IndexOf(tasks, id)]
\* TASKS[id] = record
TasksPut(tasks, id, record) ==
    IF HasTask(tasks, id)
    THEN [tasks EXCEPT ![IndexOf(tasks, id)] = record]
    ELSE Append(tasks, record)
\* TasksSet that writes the field in every record
TasksSet_AllRecords(tasks, id, field, value) ==
    [k \in 1..Len(tasks) |-> [tasks[k] EXCEPT ![field] = value]]

\* TASKS[id][field] = value
TasksSet(tasks, id, field, value) ==
    [tasks EXCEPT ![IndexOf(tasks, id)][field] = value]
TaskIds(tasks) == {tasks[k].task_id : k \in 1..Len(tasks)}
AcceptedIds == {accepted[k] : k \in 1..Len(accepted)}

Fields ==
    {"task_id", "task", "model", "max_turns", "max_tool_repetitions",
     "timeout_seconds", "status", "working_directory", "created_at",
     "updated_at", "started_at", "completed_at", "exit_code", "stdout",
     "stderr", "error"}

\* json.dumps(record) succeeds
RecordSerializable(rec) ==
    /\ JsonSerializable(rec.stdout)
    /\ JsonSerializable(rec.stderr)

(* ------------------------------- Init ---------------------------------- *)
IdleHandler ==
    [pc |-> "idle", task_id |-> 0, after202 |-> FALSE, record |-> None,
     tasks |-> <<>>]

UnbornWorker ==
    [pc |-> "unborn", task_id |-> 0, task |-> None, cmd |-> None,
     timeout_seconds |-> 0, config_home |-> 0, tmpdir |-> 0, exc |-> "",
     status |-> "", error |-> None, stdout |-> None, stderr |-> None,
     exit_code |-> None]

NoChild ==
    [state |-> "none", cmd |-> None, XDG_CONFIG_HOME |-> 0, returncode |-> 0]

Init ==
    /\ TASKS = <<>>
    /\ TASKS_LOCK = LockFree
    /\ handler = [h \in Handlers |-> IdleHandler]
    /\ response = [h \in Handlers |-> NoResponse]
    /\ worker = [w \in Workers |-> UnbornWorker]
    /\ child = [w \in Workers |-> NoChild]
    /\ tmpdirs = {}
    /\ clock = 0
    /\ accepted = <<>>
    /\ observed = [id \in Ids |-> None]

(* --------------------------- do_GET (handler) -------------------------- *)
Idle(h) == handler[h].pc = "idle"

\* the step sends r on the connection of handler h
Respond(h, r) ==
    response' = [x \in Handlers |-> IF x = h THEN r ELSE NoResponse]

\* the step sends nothing
Silent == response' = [x \in Handlers |-> NoResponse]

\* GET /health
GetHealth(h) ==
    /\ Idle(h)
    /\ handler' = [handler EXCEPT ![h] = IdleHandler]
    /\ Respond(h, HealthResponse)
    /\ UNCHANGED <<TASKS, TASKS_LOCK, worker, child, tmpdirs, clock, accepted, observed>>

\* GET on a path that is not /health, /tasks or /tasks/...
GetNotFound(h) ==
    /\ Idle(h)
    /\ handler' = [handler EXCEPT ![h] = IdleHandler]
    /\ Respond(h, ErrorResponse(404, "not found"))
    /\ UNCHANGED <<TASKS, TASKS_LOCK, worker, child, tmpdirs, clock, accepted, observed>>

\* GET /tasks: enter "with TASKS_LOCK"
GetTasksAcquire(h) ==
    /\ Idle(h)
    /\ TASKS_LOCK = LockFree
    /\ TASKS_LOCK' = HandlerThread(h)
    /\ handler' = [handler EXCEPT ![h] = [IdleHandler EXCEPT !.pc = "l162"]]
    /\ Silent
    /\ UNCHANGED <<TASKS, worker, child, tmpdirs, clock, accepted, observed>>

\* tasks = list(TASKS.values()): references to the records, then release
GetTasksList(h) ==
    /\ handler[h].pc = "l162"
    /\ handler' = [handler EXCEPT
                     ![h].pc = "l163",
                     ![h].tasks = [k \in 1..Len(TASKS) |-> TASKS[k].task_id]]
    /\ TASKS_LOCK' = LockFree
    /\ Silent
    /\ UNCHANGED <<TASKS, worker, child, tmpdirs, clock, accepted, observed>>

\* self._send_json(200, {"tasks": tasks}): serialises the records as they
\* are now, outside the lock
GetTasksSend(h) ==
    /\ handler[h].pc = "l163"
    /\ LET refs == handler[h].tasks
           recs == [k \in 1..Len(refs) |-> TasksGet(TASKS, refs[k])]
       IN  Respond(h, IF \A k \in 1..Len(recs) : RecordSerializable(recs[k])
                      THEN TasksResponse(recs)
                      ELSE UnhandledException)
    /\ handler' = [handler EXCEPT ![h] = IdleHandler]
    /\ UNCHANGED <<TASKS, TASKS_LOCK, worker, child, tmpdirs, clock, accepted, observed>>

\* GET /tasks/{task_id}: enter "with TASKS_LOCK"
GetTaskAcquire(h, id) ==
    /\ Idle(h)
    /\ TASKS_LOCK = LockFree
    /\ TASKS_LOCK' = HandlerThread(h)
    /\ handler' = [handler EXCEPT
                     ![h] = [IdleHandler EXCEPT
                               !.pc = "l169", !.task_id = id,
                               !.after202 = (id \in AcceptedIds)]]
    /\ Silent
    /\ UNCHANGED <<TASKS, worker, child, tmpdirs, clock, accepted, observed>>

\* task = TASKS.get(task_id): a reference to the record or None, then release
GetTaskLookup(h) ==
    /\ handler[h].pc = "l169"
    /\ handler' = [handler EXCEPT
                     ![h].pc = "l170",
                     ![h].tasks = IF HasTask(TASKS, handler[h].task_id)
                                  THEN <<handler[h].task_id>> ELSE <<>>]
    /\ TASKS_LOCK' = LockFree
    /\ Silent
    /\ UNCHANGED <<TASKS, worker, child, tmpdirs, clock, accepted, observed>>

\* the response to GET /tasks/{task_id}, with the request it answers: the
\* task_id asked for and whether its 202 had been sent when the request came
ForRequest(r, id, after202) ==
    r @@ [request_id |-> id, after202 |-> after202]

\* 404 when the lookup gave None, else self._send_json(200, task): the
\* record as it is now, outside the lock
GetTaskSend(h) ==
    /\ handler[h].pc = "l170"
    /\ LET r == IF handler[h].tasks = <<>>
                THEN ErrorResponse(404, "task not found")
                ELSE LET rec == TasksGet(TASKS, handler[h].tasks[1])
                     IN  IF RecordSerializable(rec) THEN TaskResponse(rec)
                         ELSE UnhandledException
       IN  Respond(h, ForRequest(r, handler[h].task_id, handler[h].after202))
    /\ handler' = [handler EXCEPT ![h] = IdleHandler]
    /\ UNCHANGED <<TASKS, TASKS_LOCK, worker, child, tmpdirs, clock, accepted, observed>>

(* ------------------------------- client -------------------------------- *)
\* goose_client.py, wait_for_done: the client reads the response to its
\* GET /tasks/{task_id} and, when the status in it is completed or failed,
\* takes it as the result of the task
WaitForDone(h) ==
    /\ response[h].kind = "task"
    /\ "request_id" \in DOMAIN response[h]
    /\ response[h].task.status \in TERMINAL_STATUSES
    /\ observed[response[h].request_id] = None
    /\ observed' = [observed EXCEPT ![response[h].request_id] = response[h].task]
    /\ Silent
    /\ UNCHANGED <<TASKS, TASKS_LOCK, handler, worker, child, tmpdirs, clock,
                   accepted>>

(* -------------------------- do_POST (handler) -------------------------- *)
\* POST on a path other than /tasks
PostNotFound(h) ==
    /\ Idle(h)
    /\ handler' = [handler EXCEPT ![h] = IdleHandler]
    /\ Respond(h, ErrorResponse(404, "not found"))
    /\ UNCHANGED <<TASKS, TASKS_LOCK, worker, child, tmpdirs, clock, accepted, observed>>

\* POST /tasks with a body that fails a check: the response is sent and the
\* handler returns
PostReject(h, body) ==
    /\ Idle(h)
    /\ PostValidate(body).verdict = "reject"
    /\ handler' = [handler EXCEPT ![h] = IdleHandler]
    /\ Respond(h, PostValidate(body).response)
    /\ UNCHANGED <<TASKS, TASKS_LOCK, worker, child, tmpdirs, clock, accepted, observed>>

\* identifiers given out so far: in the registry, in a record being built,
\* or given to a worker
IssuedIds ==
    TaskIds(TASKS)
    \cup {handler[h].task_id : h \in {x \in Handlers :
             handler[x].pc \in {"l221", "l230", "l231", "l233"}}}
    \cup {worker[w].task_id : w \in {x \in Workers : worker[x].pc # "unborn"}}

\* uuid.uuid4(): an identifier never returned before.  Identifiers are
\* opaque, so they are numbered in the order in which they are generated.
uuid4 ==
    {id \in Ids \ IssuedIds : \A other \in Ids \ IssuedIds : id <= other}

\* submissions that were admitted: workers started or about to be
Admissions ==
    Cardinality({w \in Workers : worker[w].pc # "unborn"})
    + Cardinality({h \in Handlers :
                     handler[h].pc \in {"l221", "l230", "l231", "l233"}})

\* POST /tasks with a body that passes the checks, lines 192-220: task_id
\* and the record up to "created_at": utc_now()
PostAdmit(h, body, id) ==
    /\ Idle(h)
    /\ PostValidate(body).verdict = "admit"
    /\ Admissions < MaxTasks
    /\ id \in uuid4
    /\ handler' = [handler EXCEPT
                     ![h] = [IdleHandler EXCEPT
                               !.pc = "l221", !.task_id = id,
                               !.record = NewRecord(id, body.payload,
                                    PostValidate(body).wd, utc_now(clock),
                                    None)]]
    /\ Silent
    /\ UNCHANGED <<TASKS, TASKS_LOCK, worker, child, tmpdirs, clock, accepted, observed>>

\* lines 221-228: "updated_at": utc_now() and the fields that start as None
PostRecord(h) ==
    /\ handler[h].pc = "l221"
    /\ handler' = [handler EXCEPT
                     ![h].pc = "l230",
                     ![h].record.updated_at = utc_now(clock)]
    /\ Silent
    /\ UNCHANGED <<TASKS, TASKS_LOCK, worker, child, tmpdirs, clock, accepted, observed>>

\* enter "with TASKS_LOCK"
PostAcquire(h) ==
    /\ handler[h].pc = "l230"
    /\ TASKS_LOCK = LockFree
    /\ TASKS_LOCK' = HandlerThread(h)
    /\ handler' = [handler EXCEPT ![h].pc = "l231"]
    /\ Silent
    /\ UNCHANGED <<TASKS, worker, child, tmpdirs, clock, accepted, observed>>

\* TASKS[task_id] = record, then release
PostInsert(h) ==
    /\ handler[h].pc = "l231"
    /\ TASKS' = TasksPut(TASKS, handler[h].task_id, handler[h].record)
    /\ TASKS_LOCK' = LockFree
    /\ handler' = [handler EXCEPT ![h].pc = "l233"]
    /\ Silent
    /\ UNCHANGED <<worker, child, tmpdirs, clock, accepted, observed>>

\* threading.Thread(target=run_task, args=(task_id,)).start()
PostStartWorker(h) ==
    /\ handler[h].pc = "l233"
    /\ LET w == CHOOSE x \in Workers :
                  /\ worker[x].pc = "unborn"
                  /\ \A y \in Workers : worker[y].pc = "unborn" => x <= y
       IN  worker' = [worker EXCEPT
                        ![w] = [UnbornWorker EXCEPT
                                  !.pc = "l56",
                                  !.task_id = handler[h].task_id]]
    /\ handler' = [handler EXCEPT ![h].pc = "l236"]
    /\ Silent
    /\ UNCHANGED <<TASKS, TASKS_LOCK, child, tmpdirs, clock, accepted, observed>>

\* self._send_json(202, {"task_id": task_id, "status": "queued"})
PostSend(h) ==
    /\ handler[h].pc = "l236"
    /\ Respond(h, AcceptedResponse(handler[h].task_id))
    /\ accepted' = Append(accepted, handler[h].task_id)
    /\ handler' = [handler EXCEPT ![h] = IdleHandler]
    /\ UNCHANGED <<TASKS, TASKS_LOCK, worker, child, tmpdirs, clock, observed>>

(* ------------------------- run_task (worker) --------------------------- *)
At(w, label) == worker[w].pc = label
Goto(w, label) == worker' = [worker EXCEPT ![w].pc = label]
HoldsLock(w) == TASKS_LOCK = WorkerThread(w)

\* line 56-59: enter "with TASKS_LOCK", task = TASKS.get(task_id); when it is
\* None the worker returns, which releases the lock.  The local task refers
\* to the record; the worker reads through it only the fields set at
\* admission, which nothing changes, so it is kept as their values.
RunTaskAcquire(w) ==
    /\ At(w, "l56")
    /\ TASKS_LOCK = LockFree
    /\ IF HasTask(TASKS, worker[w].task_id)
       THEN /\ TASKS_LOCK' = WorkerThread(w)
            /\ worker' = [worker EXCEPT
                             ![w].pc = "l60",
                             ![w].task = TasksGet(TASKS, worker[w].task_id)]
       ELSE /\ TASKS_LOCK' = LockFree
            /\ Goto(w, "returned")
    /\ Silent
    /\ UNCHANGED <<TASKS, handler, child, tmpdirs, clock, accepted, observed>>

\* one assignment task[field] = value made while the lock is held
WriteField(w, from, field, value, to) ==
    /\ At(w, from)
    /\ HoldsLock(w)
    /\ TASKS' = TasksSet(TASKS, worker[w].task_id, field, value)
    /\ Goto(w, to)

\* line 60
SetRunning(w) ==
    /\ WriteField(w, "l60", "status", "running", "l61")
    /\ Silent
    /\ UNCHANGED <<TASKS_LOCK, handler, child, tmpdirs, clock, accepted, observed>>

\* line 61
SetStartedAt(w) ==
    /\ WriteField(w, "l61", "started_at", utc_now(clock), "l62")
    /\ Silent
    /\ UNCHANGED <<TASKS_LOCK, handler, child, tmpdirs, clock, accepted, observed>>

\* SetUpdatedAtRunning that leaves updated_at as it was
SetUpdatedAtRunning_Skipped(w) ==
    /\ At(w, "l62")
    /\ HoldsLock(w)
    /\ Goto(w, "l63")
    /\ Silent
    /\ UNCHANGED <<TASKS, TASKS_LOCK, handler, child, tmpdirs, clock, accepted, observed>>

\* line 62
SetUpdatedAtRunning(w) ==
    /\ WriteField(w, "l62", "updated_at", utc_now(clock), "l63")
    /\ Silent
    /\ UNCHANGED <<TASKS_LOCK, handler, child, tmpdirs, clock, accepted, observed>>

\* ClearError with the lock kept after the block
ClearError_KeepsLock(w) ==
    /\ WriteField(w, "l63", "error", None, "l69")
    /\ Silent
    /\ UNCHANGED <<TASKS_LOCK, handler, child, tmpdirs, clock, accepted, observed>>

\* line 63, and the end of the "with" block releases the lock
ClearError(w) ==
    /\ WriteField(w, "l63", "error", None, "l69")
    /\ TASKS_LOCK' = LockFree
    /\ Silent
    /\ UNCHANGED <<handler, child, tmpdirs, clock, accepted, observed>>

\* mkdtemp that gives every run the same directory
mkdtemp_Shared(existing) == {1}

\* names tempfile.mkdtemp can pick: it creates the directory with os.mkdir,
\* which fails on a name that exists, and then tries another name.  Names
\* are opaque, so the first free one stands for any free one.
mkdtemp(existing) ==
    {d \in DirNames \ existing : \A other \in DirNames \ existing : d <= other}

\* rmtree that leaves the directory on disk
rmtree_Keep(existing, d) == existing

\* TemporaryDirectory.__exit__: shutil.rmtree removes the directory and what
\* is in it, on a normal end of the "with" block and on an exception
rmtree(existing, d) == existing \ {d}

\* line 69: tempfile.TemporaryDirectory() creates a directory
MakeTmpDir(w, d) ==
    /\ At(w, "l69")
    /\ d \in mkdtemp(tmpdirs)
    /\ tmpdirs' = tmpdirs \cup {d}
    /\ worker' = [worker EXCEPT ![w].pc = "l72", ![w].tmpdir = d]
    /\ Silent
    /\ UNCHANGED <<TASKS, TASKS_LOCK, handler, child, clock, accepted, observed>>

\* line 69 raises OSError (no space, no permission, no free name): nothing
\* in run_task catches it, the thread ends
MakeTmpDirRaises(w) ==
    /\ At(w, "l69")
    /\ worker' = [worker EXCEPT ![w].pc = "raised", ![w].exc = "OSError at line 69"]
    /\ Silent
    /\ UNCHANGED <<TASKS, TASKS_LOCK, handler, child, tmpdirs, clock, accepted, observed>>

\* lines 70-75: goose_subdir.mkdir and, when goose_config.yaml exists,
\* shutil.copy
SeedConfig(w) ==
    /\ At(w, "l72")
    /\ Goto(w, "l78")
    /\ Silent
    /\ UNCHANGED <<TASKS, TASKS_LOCK, handler, child, tmpdirs, clock, accepted, observed>>

\* lines 72 or 75 raise OSError: the "with" block removes the directory and
\* the exception leaves run_task uncaught
SeedConfigRaises(w) ==
    /\ At(w, "l72")
    /\ tmpdirs' = rmtree(tmpdirs, worker[w].tmpdir)
    /\ worker' = [worker EXCEPT ![w].pc = "raised", ![w].exc = "OSError at line 72"]
    /\ Silent
    /\ UNCHANGED <<TASKS, TASKS_LOCK, handler, child, clock, accepted, observed>>

\* "if task.get('model')": None and "" are false
Truthy(v) == v # None /\ v # Str(<<>>)

\* lines 81-92: the command line of the agent
Command(task) ==
    [text |-> build_task_prompt(task.task.s),
     max_turns |-> PyStr(task.max_turns),
     max_tool_repetitions |-> PyStr(task.max_tool_repetitions),
     model |-> IF Truthy(task.model) THEN task.model ELSE Absent]

\* lines 78-94: env["XDG_CONFIG_HOME"] = str(tmp_config_dir), cmd, cwd and
\* timeout_seconds = int(task.get("timeout_seconds", ...)); int() is outside
\* the try block, so when it raises the "with" block removes the directory
\* and the exception leaves run_task uncaught
BuildCommand(w) ==
    /\ At(w, "l78")
    /\ LET task == worker[w].task
           conv == PyInt(task.timeout_seconds)
       IN  IF conv.ok
           THEN /\ worker' = [worker EXCEPT
                                ![w].pc = "l97",
                                ![w].cmd = Command(task),
                                ![w].config_home = worker[w].tmpdir,
                                ![w].timeout_seconds = conv.i]
                /\ UNCHANGED tmpdirs
           ELSE /\ worker' = [worker EXCEPT
                                ![w].pc = "raised",
                                ![w].exc = conv.exc \o " at line 94"]
                /\ tmpdirs' = rmtree(tmpdirs, worker[w].tmpdir)
    /\ Silent
    /\ UNCHANGED <<TASKS, TASKS_LOCK, handler, child, clock, accepted, observed>>

\* line 97: subprocess.run starts the child with env
Launch(w) ==
    /\ At(w, "l97")
    /\ child' = [child EXCEPT
                   ![w] = [state |-> "running",
                           cmd |-> worker[w].cmd,
                           XDG_CONFIG_HOME |-> worker[w].config_home,
                           returncode |-> 0]]
    /\ Goto(w, "l98")
    /\ Silent
    /\ UNCHANGED <<TASKS, TASKS_LOCK, handler, tmpdirs, clock, accepted, observed>>

\* messages of the exceptions subprocess.run raises when it cannot start
\* the child
LaunchErrors ==
    {"No such file or directory: 'goose'", "Permission denied: 'goose'"}

\* lines 117-122: except Exception
LaunchRaises(w, msg) ==
    /\ At(w, "l97")
    /\ msg \in LaunchErrors
    /\ worker' = [worker EXCEPT
                    ![w].pc = "l123",
                    ![w].exc = msg,
                    ![w].status = "failed",
                    ![w].error = Msg(msg),
                    ![w].stdout = Msg(""),
                    ![w].stderr = Msg(""),
                    ![w].exit_code = IntVal(LAUNCH_ERROR_EXIT_CODE)]
    /\ Silent
    /\ UNCHANGED <<TASKS, TASKS_LOCK, handler, child, tmpdirs, clock, accepted, observed>>

\* exit codes of the child
ExitCodes == {0, 1}

\* the child process ends by itself
ChildExits(w, rc) ==
    /\ child[w].state = "running"
    /\ rc \in ExitCodes
    /\ child' = [child EXCEPT ![w].state = "exited", ![w].returncode = rc]
    /\ Silent
    /\ UNCHANGED <<TASKS, TASKS_LOCK, handler, worker, tmpdirs, clock, accepted, observed>>

\* what capture_output=True, text=True gives for <<stdout, stderr>>
Outputs == {<<Msg(""), Msg("")>>, <<Msg("out"), Msg("err")>>}

\* ResultStatus with a failed run put back in the queue
ResultStatus_Requeue(returncode) ==
    IF returncode = 0 THEN "completed" ELSE "queued"

\* ResultError with the test on the return code inverted
ResultError_Inverted(returncode) ==
    IF returncode # 0 THEN None ELSE Msg("goose returned non-zero exit code")

\* lines 106-107
ResultStatus(returncode) == IF returncode = 0 THEN "completed" ELSE "failed"
ResultError(returncode) ==
    IF returncode = 0 THEN None ELSE Msg("goose returned non-zero exit code")

\* CollectResult that runs the agent again after a non-zero exit code
CollectResult_Retry(w, output) ==
    /\ At(w, "l98")
    /\ child[w].state = "exited"
    /\ output \in Outputs
    /\ worker' = [worker EXCEPT
                    ![w].pc = IF child[w].returncode = 0 THEN "l123" ELSE "l97",
                    ![w].status = ResultStatus(child[w].returncode),
                    ![w].error = ResultError(child[w].returncode),
                    ![w].stdout = output[1],
                    ![w].stderr = output[2],
                    ![w].exit_code = IntVal(child[w].returncode)]
    /\ Silent
    /\ UNCHANGED <<TASKS, TASKS_LOCK, handler, child, tmpdirs, clock, accepted, observed>>

\* lines 106-110: subprocess.run returned
CollectResult(w, output) ==
    /\ At(w, "l98")
    /\ child[w].state = "exited"
    /\ output \in Outputs
    /\ worker' = [worker EXCEPT
                    ![w].pc = "l123",
                    ![w].status = ResultStatus(child[w].returncode),
                    ![w].error = ResultError(child[w].returncode),
                    ![w].stdout = output[1],
                    ![w].stderr = output[2],
                    ![w].exit_code = IntVal(child[w].returncode)]
    /\ Silent
    /\ UNCHANGED <<TASKS, TASKS_LOCK, handler, child, tmpdirs, clock, accepted, observed>>

\* <<TimeoutExpired.stdout, .stderr>>: None when nothing was read, else the
\* bytes read so far (bytes also under text=True)
PartialOutputs == {<<None, None>>, <<Bytes("out"), Bytes("err")>>}

\* OrEmpty without the "or ''"
OrEmpty_Missing(v) == v

\* "x or ''"
OrEmpty(v) == IF v = None THEN Msg("") ELSE v

\* TimeoutError that reports the default timeout, not the one of the task
TimeoutError_Default(seconds) ==
    [type |-> "str", m |-> "goose timed out after",
     n |-> DEFAULT_TIMEOUT_SECONDS, u |-> "seconds"]

\* line 113
TimeoutError(seconds) ==
    [type |-> "str", m |-> "goose timed out after", n |-> seconds,
     u |-> "seconds"]

\* lines 111-116: the child is still running when timeout_seconds have
\* passed; subprocess.run kills it and raises TimeoutExpired
TimeoutExpired(w, output) ==
    /\ At(w, "l98")
    /\ child[w].state = "running"
    /\ output \in PartialOutputs
    /\ child' = [child EXCEPT ![w].state = "killed"]
    /\ worker' = [worker EXCEPT
                    ![w].pc = "l123",
                    ![w].status = "failed",
                    ![w].error = TimeoutError(worker[w].timeout_seconds),
                    ![w].stdout = OrEmpty(output[1]),
                    ![w].stderr = OrEmpty(output[2]),
                    ![w].exit_code = IntVal(TIMEOUT_EXIT_CODE)]
    /\ Silent
    /\ UNCHANGED <<TASKS, TASKS_LOCK, handler, tmpdirs, clock, accepted, observed>>

\* Cleanup that leaves the removal of the directory for later
Cleanup_Deferred(w) ==
    /\ At(w, "l123")
    /\ Goto(w, "l124")
    /\ Silent
    /\ UNCHANGED <<TASKS, TASKS_LOCK, handler, child, tmpdirs, clock, accepted, observed>>

\* end of the "with tempfile.TemporaryDirectory()" block: the directory is
\* removed
Cleanup(w) ==
    /\ At(w, "l123")
    /\ tmpdirs' = rmtree(tmpdirs, worker[w].tmpdir)
    /\ Goto(w, "l124")
    /\ Silent
    /\ UNCHANGED <<TASKS, TASKS_LOCK, handler, child, clock, accepted, observed>>

\* FinishAcquire that puts a record in the registry when there is none
FinishAcquire_Upsert(w) ==
    /\ At(w, "l124")
    /\ TASKS_LOCK = LockFree
    /\ IF HasTask(TASKS, worker[w].task_id)
       THEN /\ TASKS_LOCK' = WorkerThread(w)
            /\ Goto(w, "l127")
            /\ UNCHANGED TASKS
       ELSE /\ TASKS_LOCK' = LockFree
            /\ Goto(w, "returned")
            /\ TASKS' = Append(TASKS, [worker[w].task EXCEPT
                                         !.status = worker[w].status])
    /\ Silent
    /\ UNCHANGED <<handler, child, tmpdirs, clock, accepted, observed>>

\* lines 124-126: enter "with TASKS_LOCK"; when task_id is not in TASKS the
\* worker returns, which releases the lock
FinishAcquire(w) ==
    /\ At(w, "l124")
    /\ TASKS_LOCK = LockFree
    /\ IF HasTask(TASKS, worker[w].task_id)
       THEN /\ TASKS_LOCK' = WorkerThread(w)
            /\ Goto(w, "l127")
       ELSE /\ TASKS_LOCK' = LockFree
            /\ Goto(w, "returned")
    /\ Silent
    /\ UNCHANGED <<TASKS, handler, child, tmpdirs, clock, accepted, observed>>

\* line 127
SetStatus(w) ==
    /\ WriteField(w, "l127", "status", worker[w].status, "l128")
    /\ Silent
    /\ UNCHANGED <<TASKS_LOCK, handler, child, tmpdirs, clock, accepted, observed>>

\* line 128
SetCompletedAt(w) ==
    /\ WriteField(w, "l128", "completed_at", utc_now(clock), "l129")
    /\ Silent
    /\ UNCHANGED <<TASKS_LOCK, handler, child, tmpdirs, clock, accepted, observed>>

\* line 129
SetUpdatedAtDone(w) ==
    /\ WriteField(w, "l129", "updated_at", utc_now(clock), "l130")
    /\ Silent
    /\ UNCHANGED <<TASKS_LOCK, handler, child, tmpdirs, clock, accepted, observed>>

\* line 130
SetExitCode(w) ==
    /\ WriteField(w, "l130", "exit_code", worker[w].exit_code, "l131")
    /\ Silent
    /\ UNCHANGED <<TASKS_LOCK, handler, child, tmpdirs, clock, accepted, observed>>

\* line 131
SetStdout(w) ==
    /\ WriteField(w, "l131", "stdout", worker[w].stdout, "l132")
    /\ Silent
    /\ UNCHANGED <<TASKS_LOCK, handler, child, tmpdirs, clock, accepted, observed>>

\* line 132
SetStderr(w) ==
    /\ WriteField(w, "l132", "stderr", worker[w].stderr, "l133")
    /\ Silent
    /\ UNCHANGED <<TASKS_LOCK, handler, child, tmpdirs, clock, accepted, observed>>

\* line 133, and the end of the "with" block releases the lock
SetError(w) ==
    /\ WriteField(w, "l133", "error", worker[w].error, "returned")
    /\ TASKS_LOCK' = LockFree
    /\ Silent
    /\ UNCHANGED <<handler, child, tmpdirs, clock, accepted, observed>>

(* ------------------ callers other than do_POST ------------------------ *)
\* run_task(task_id) called with an identifier that no record has.  do_POST
\* never does this: it inserts the record before it starts the worker.
RunTaskDirect(w) ==
    /\ worker[w].pc = "unborn"
    /\ \A x \in Workers : worker[x].pc = "unborn" => w <= x
    /\ Admissions < MaxTasks
    /\ worker' = [worker EXCEPT ![w] = [UnbornWorker EXCEPT !.pc = "l56"]]
    /\ Silent
    /\ UNCHANGED <<TASKS, TASKS_LOCK, handler, child, tmpdirs, clock, accepted, observed>>

\* "with TASKS_LOCK: del TASKS[task_id]" run by another thread.  Nothing in
\* goose_server.py removes a record; the step stands for code outside it
\* that uses the module's TASKS and TASKS_LOCK, and is the only way for the
\* test of line 125 to find the record missing.
Evict(id) ==
    /\ TASKS_LOCK = LockFree
    /\ HasTask(TASKS, id)
    /\ TASKS' = SelectSeq(TASKS, LAMBDA rec : rec.task_id # id)
    /\ Silent
    /\ UNCHANGED <<TASKS_LOCK, handler, worker, child, tmpdirs, clock, accepted, observed>>

(* ------------------------------- clock --------------------------------- *)
\* a second passes
Tick ==
    /\ clock < MaxClock
    /\ clock' = clock + 1
    /\ Silent
    /\ UNCHANGED <<TASKS, TASKS_LOCK, handler, worker, child, tmpdirs, accepted, observed>>

(* ---------------------------- specification ---------------------------- *)
\* the steps of an admitted POST /tasks after its checks, and of the worker
\* it starts
NextRun ==
    \/ \E h \in Handlers : PostRecord(h)
    \/ \E h \in Handlers : PostAcquire(h)
    \/ \E h \in Handlers : PostInsert(h)
    \/ \E h \in Handlers : PostStartWorker(h)
    \/ \E h \in Handlers : PostSend(h)
    \/ \E w \in Workers : RunTaskAcquire(w)
    \/ \E w \in Workers : SetRunning(w)
    \/ \E w \in Workers : SetStartedAt(w)
    \/ \E w \in Workers : SetUpdatedAtRunning(w)
    \/ \E w \in Workers : ClearError(w)
    \/ \E w \in Workers : \E d \in DirNames : MakeTmpDir(w, d)
    \/ \E w \in Workers : MakeTmpDirRaises(w)
    \/ \E w \in Workers : SeedConfig(w)
    \/ \E w \in Workers : SeedConfigRaises(w)
    \/ \E w \in Workers : BuildCommand(w)
    \/ \E w \in Workers : Launch(w)
    \/ \E w \in Workers : \E msg \in LaunchErrors : LaunchRaises(w, msg)
    \/ \E w \in Workers : \E rc \in ExitCodes : ChildExits(w, rc)
    \/ \E w \in Workers : \E output \in Outputs : CollectResult(w, output)
    \/ \E w \in Workers : \E output \in PartialOutputs :
          TimeoutExpired(w, output)
    \/ \E w \in Workers : Cleanup(w)
    \/ \E w \in Workers : FinishAcquire(w)
    \/ \E w \in Workers : SetStatus(w)
    \/ \E w \in Workers : SetCompletedAt(w)
    \/ \E w \in Workers : SetUpdatedAtDone(w)
    \/ \E w \in Workers : SetExitCode(w)
    \/ \E w \in Workers : SetStdout(w)
    \/ \E w \in Workers : SetStderr(w)
    \/ \E w \in Workers : SetError(w)

\* a POST /tasks that is admitted, and what follows from it
NextTasks ==
    \/ \E h \in Handlers : \E body \in Bodies : \E id \in Ids :
          PostAdmit(h, body, id)
    \/ NextRun

\* a POST /tasks that is rejected
NextRejects ==
    \E h \in Handlers : \E body \in Bodies : PostReject(h, body)

\* GET /tasks and GET /tasks/{task_id}
NextPolls ==
    \/ \E h \in Handlers : GetTasksAcquire(h)
    \/ \E h \in Handlers : GetTasksList(h)
    \/ \E h \in Handlers : GetTasksSend(h)
    \/ \E h \in Handlers : \E id \in Ids \cup {0} : GetTaskAcquire(h, id)
    \/ \E h \in Handlers : GetTaskLookup(h)
    \/ \E h \in Handlers : GetTaskSend(h)

\* the other requests
NextOthers ==
    \/ \E h \in Handlers : GetHealth(h)
    \/ \E h \in Handlers : GetNotFound(h)
    \/ \E h \in Handlers : PostNotFound(h)

Next == NextTasks \/ NextRejects \/ NextPolls \/ NextOthers

\* Every request and every worker.  The wall clock stands still: the whole
\* run falls inside one second of utc_now().
Spec == Init /\ [][Next]_vars

\* Clients that only submit tasks that are admitted.  The other requests
\* read the registry and the workers' state and change neither.
NextSubmit == NextTasks
SpecSubmit == Init /\ [][NextSubmit]_vars

\* no worker is between its start and its end
Quiet == \A w \in Workers : worker[w].pc \in {"unborn", "returned", "raised"}

\* a client that waits for the end of a task before it submits the next
PostAdmitWhenQuiet(h, body, id) ==
    /\ Quiet
    /\ PostAdmit(h, body, id)

\* Clients that submit tasks, admitted or rejected, at any moment, and
\* submit a task that is admitted only when no task is in progress.
NextAdmission ==
    \/ \E h \in Handlers : \E body \in Bodies : \E id \in Ids :
          PostAdmitWhenQuiet(h, body, id)
    \/ NextRun
    \/ NextRejects
SpecAdmission == Init /\ [][NextAdmission]_vars

\* Clients that submit tasks and poll them.
NextPolling == NextTasks \/ NextPolls
SpecPolling == Init /\ [][NextPolling]_vars

\* GET /tasks/{task_id}
NextPollOne ==
    \/ \E h \in Handlers : \E id \in Ids : GetTaskAcquire(h, id)
    \/ \E h \in Handlers : GetTaskLookup(h)
    \/ \E h \in Handlers : GetTaskSend(h)

\* Clients that submit a task when no task is in progress, poll each task
\* until it is done and go on polling it afterwards.
NextObserve ==
    \/ \E h \in Handlers : \E body \in Bodies : \E id \in Ids :
          PostAdmitWhenQuiet(h, body, id)
    \/ NextRun
    \/ NextPollOne
    \/ \E h \in Handlers : WaitForDone(h)
SpecObserve == Init /\ [][NextObserve]_vars

\* a step of the thread that holds TASKS_LOCK, inside its "with" block
LockedStep ==
    \/ \E h \in Handlers : GetTasksList(h) \/ GetTaskLookup(h) \/ PostInsert(h)
    \/ \E w \in Workers :
          \/ SetRunning(w) \/ SetStartedAt(w) \/ SetUpdatedAtRunning(w)
          \/ ClearError(w)
          \/ SetStatus(w) \/ SetCompletedAt(w) \/ SetUpdatedAtDone(w)
          \/ SetExitCode(w) \/ SetStdout(w) \/ SetStderr(w) \/ SetError(w)

\* the step of do_GET of handler h after its "with" block: _send_json
SendStep(h) == GetTasksSend(h) \/ GetTaskSend(h)

\* a body with the task text and nothing else
DefaultBody ==
    [kind |-> "object",
     payload |-> Payload(GoodTask, Absent, Absent, Absent, Absent, Absent)]

\* POST /tasks with that body
PostAdmitDefault(h, id) == PostAdmit(h, DefaultBody, id)

\* Clients that submit tasks with the task text alone and poll them.
NextLock ==
    \/ \E h \in Handlers : \E id \in Ids : PostAdmitDefault(h, id)
    \/ NextRun
    \/ NextPolls

\* The same, with threads that run when they can: a thread inside
\* "with TASKS_LOCK" goes on to the end of the block, and each handler that
\* has read the registry goes on to send its response.  Nothing is assumed
\* about the workers outside the lock and about the child processes: a task
\* may run, or hang, for ever.
SpecLock ==
    /\ Init
    /\ [][NextLock]_vars
    /\ WF_vars(LockedStep)
    /\ \A h \in Handlers : WF_vars(SendStep(h))

\* Clients that submit a task when no task is in progress, a caller of
\* run_task with an unknown identifier, and a thread that removes records.
NextVanish ==
    \/ \E h \in Handlers : \E body \in Bodies : \E id \in Ids :
          PostAdmitWhenQuiet(h, body, id)
    \/ NextRun
    \/ \E w \in Workers : RunTaskDirect(w)
    \/ \E id \in Ids : Evict(id)
SpecVanish == Init /\ [][NextVanish]_vars

\* Clients that submit a task when no task is in progress, with the wall
\* clock advancing between any two steps.
NextTimed ==
    \/ \E h \in Handlers : \E body \in Bodies : \E id \in Ids :
          PostAdmitWhenQuiet(h, body, id)
    \/ NextRun
    \/ Tick
SpecTimed == Init /\ [][NextTimed]_vars

(* ------------------------------- claims -------------------------------- *)
RecordOf(id) == TasksGet(TASKS, id)
\* the worker has ended: run_task returned, or an exception left it
Ended(w) == worker[w].pc \in {"returned", "raised"}
\* no worker is in the middle of an update of the record
Settled(id) == \A w \in Workers : ~(worker[w].task_id = id /\ HoldsLock(w))
\* the worker is inside the "with tempfile.TemporaryDirectory()" block
InRun(w) == worker[w].pc \in {"l72", "l78", "l97", "l98", "l123"}

StatusStep(old, new) ==
    \/ new = old
    \/ old = "queued" /\ new = "running"
    \/ old = "running" /\ new \in {"completed", "failed"}

\* C1: in every step the registry keeps its records, a new record starts as
\* queued, and the status of a record stays or moves queued -> running or
\* running -> completed/failed; so a status never goes back, never skips
\* running and never changes once it is completed or failed.
C1_StatusWalk ==
    [][/\ Len(TASKS') >= Len(TASKS)
       /\ \A k \in 1..Len(TASKS') :
            IF k <= Len(TASKS)
            THEN /\ TASKS'[k].task_id = TASKS[k].task_id
                 /\ StatusStep(TASKS[k].status, TASKS'[k].status)
            ELSE TASKS'[k].status = "queued"]_vars

\* one task has walked to completed and another to failed
C1_Witness ==
    /\ \E k \in 1..Len(TASKS) : TASKS[k].status = "completed"
    /\ \E k \in 1..Len(TASKS) : TASKS[k].status = "failed"

\* C2: once the worker of a task has ended, the record of the task is
\* completed or failed: no record is left in running.
C2_EndedWorkerLeavesTerminal ==
    \A w \in Workers :
        Ended(w) =>
            /\ HasTask(TASKS, worker[w].task_id)
            /\ RecordOf(worker[w].task_id).status \in TERMINAL_STATUSES

\* the fields of a record agree with its status
FieldsMatchStatus(rec) ==
    /\ rec.started_at # None <=> rec.status \in {"running", "completed", "failed"}
    /\ \A f \in {"completed_at", "exit_code", "stdout", "stderr"} :
           rec[f] # None <=> rec.status \in {"completed", "failed"}

\* C3: every record sent in a response to GET /tasks/{task_id} or GET /tasks
\* is a record as the registry held it between two updates: it is never a
\* record caught in the middle of an update.
C3_ResponsesAreSnapshots ==
    \A h \in Handlers :
        /\ response[h].kind = "task" => FieldsMatchStatus(response[h].task)
        /\ response[h].kind = "tasks" =>
              \A k \in 1..Len(response[h].tasks) :
                  FieldsMatchStatus(response[h].tasks[k])

\* C4: whenever the registry lock is free, in every record started_at is set
\* exactly when the status is running, completed or failed, and completed_at,
\* exit_code, stdout and stderr are set exactly when it is completed or
\* failed.
C4_FieldsMatchStatus ==
    TASKS_LOCK = LockFree =>
        \A k \in 1..Len(TASKS) : FieldsMatchStatus(TASKS[k])

\* the lock is free, one record is running and one record is terminal
C4_Witness ==
    /\ TASKS_LOCK = LockFree
    /\ \E k \in 1..Len(TASKS) : TASKS[k].status = "running"
    /\ \E k \in 1..Len(TASKS) :
          TASKS[k].status = "failed" /\ TASKS[k].stdout = Msg("")

\* the bodies C5 is about.  A working_directory of null counts as not given:
\* payload.get() gives None for both.
TaskFieldBad(payload) ==
    \/ payload.task = Absent
    \/ ~IsStr(payload.task)
    \/ strip(payload.task.s) = <<>>
WorkingDirectoryGiven(payload) ==
    payload.working_directory \notin {Absent, None}
WorkingDirectoryBad(payload) ==
    /\ WorkingDirectoryGiven(payload)
    /\ \/ ~IsStr(payload.working_directory)
       \/ payload.working_directory.s = <<>>
WorkingDirectoryMissing(payload) ==
    IF WorkingDirectoryGiven(payload)
    THEN IsStr(payload.working_directory)
         /\ payload.working_directory.s \notin ExistingPaths
    ELSE ServerCwd \notin ExistingPaths
MustBeRejected(body) ==
    /\ body.kind = "object"
    /\ \/ TaskFieldBad(body.payload)
       \/ WorkingDirectoryBad(body.payload)
       \/ WorkingDirectoryMissing(body.payload)

\* handler h takes a POST /tasks with this body
PostTasks(h, body) ==
    \/ PostReject(h, body)
    \/ \E id \in Ids : PostAdmit(h, body, id)

\* the statuses of the tasks in the registry
StatusesSeen == {TASKS[k].status : k \in 1..Len(TASKS)}

C6_AcceptedStayResolvable ==
    /\ \A i, j \in 1..Len(accepted) : i # j => accepted[i] # accepted[j]
    /\ \A id \in AcceptedIds : HasTask(TASKS, id)
    /\ \A h \in Handlers :
          ("after202" \in DOMAIN response[h] /\ response[h].after202) =>
              /\ response[h].code = 200
              /\ response[h].task.task_id = response[h].request_id

C8_TimeoutRecorded ==
    \A w \in Workers :
        child[w].state = "killed" =>
            /\ worker[w].pc # "l98"
            /\ worker[w].pc = "returned" =>
                  LET rec == RecordOf(worker[w].task_id)
                  IN  /\ rec.status = "failed"
                      /\ rec.exit_code = IntVal(124)
                      /\ "n" \in DOMAIN rec.error
                      /\ rec.error.n = PyInt(rec.timeout_seconds).i
                      /\ rec.stdout # None
                      /\ rec.stderr # None

\* a task with timeout_seconds "7" and one with the default have timed out,
\* one with partial output and one without, and both workers have returned
C8_Witness ==
    /\ \E w \in Workers :
          /\ worker[w].pc = "returned" /\ child[w].state = "killed"
          /\ worker[w].timeout_seconds = 7
          /\ RecordOf(worker[w].task_id).stdout = Msg("")
    /\ \E w \in Workers :
          /\ worker[w].pc = "returned" /\ child[w].state = "killed"
          /\ worker[w].timeout_seconds = DEFAULT_TIMEOUT_SECONDS
          /\ RecordOf(worker[w].task_id).stdout = Bytes("out")

\* C9: when a worker has ended and its agent was never started, the record
\* is failed with exit_code -1 and the message of the error as its error.
C9_StartFailureRecorded ==
    \A w \in Workers :
        (Ended(w) /\ child[w].state = "none") =>
            LET rec == RecordOf(worker[w].task_id)
            IN  /\ rec.status = "failed"
                /\ rec.exit_code = IntVal(0 - 1)
                /\ rec.error = Msg(worker[w].exc)

\* C10: the workers that are inside their run hold directories that differ
\* from each other, and a running child has as its configuration root the
\* directory of its own worker, which exists and is the directory of no
\* other worker.
C10_ConfigRootsDisjoint ==
    /\ \A w1, w2 \in Workers :
          (w1 # w2 /\ InRun(w1) /\ InRun(w2)) =>
              worker[w1].tmpdir # worker[w2].tmpdir
    /\ \A w \in Workers :
          child[w].state = "running" =>
              /\ child[w].XDG_CONFIG_HOME = worker[w].tmpdir
              /\ child[w].XDG_CONFIG_HOME \in tmpdirs
              /\ \A other \in Workers \ {w} :
                    InRun(other) =>
                        worker[other].tmpdir # child[w].XDG_CONFIG_HOME

\* two children run at the same time
C10_Witness ==
    \E w1, w2 \in Workers :
        /\ w1 # w2
        /\ child[w1].state = "running"
        /\ child[w2].state = "running"

\* C11: every isolated directory that exists belongs to a worker that is
\* inside its "with tempfile.TemporaryDirectory()" block, one directory per
\* such worker: once a worker has left the block (child exited with any
\* code, timeout, launch error, exception while seeding or building the
\* command) or has ended, the directory it created no longer exists.
C11_ConfigDirRemoved ==
    /\ \A d \in tmpdirs :
          \E w \in Workers : InRun(w) /\ worker[w].tmpdir = d
    /\ Cardinality(tmpdirs) = Cardinality({w \in Workers : InRun(w)})

\* one worker has returned after a timeout and one has ended on an exception
\* raised while seeding its directory; both had created a directory
C11_Witness ==
    /\ \E w \in Workers :
          /\ worker[w].pc = "returned" /\ child[w].state = "killed"
          /\ worker[w].tmpdir \in DirNames
    /\ \E w \in Workers :
          /\ worker[w].pc = "raised" /\ worker[w].exc = "OSError at line 72"
          /\ worker[w].tmpdir \in DirNames
    /\ tmpdirs = {}

\* C12: once a client has received a response to GET /tasks/{task_id} that
\* shows completed or failed, every later response to GET /tasks/{task_id}
\* for that task is 200 with the same value in every field of the record.
C12_TerminalReadsRepeat ==
    \A h \in Handlers :
        ("request_id" \in DOMAIN response[h]
         /\ observed[response[h].request_id] # None) =>
            /\ response[h].kind = "task"
            /\ response[h].task = observed[response[h].request_id]

\* the positions of run_task inside its two "with TASKS_LOCK" blocks
LockedLines ==
    {"l60", "l61", "l62", "l63",
     "l127", "l128", "l129", "l130", "l131", "l132", "l133"}

\* handler h is in a GET /tasks or GET /tasks/{task_id}
InGet(h) == handler[h].pc \in {"l162", "l163", "l169", "l170"}

\* C13: a worker holds the registry lock only inside its two "with" blocks,
\* so never while it builds its environment, waits for the child or has
\* ended, and a handler only on lines 162, 169 and 231; a lock that is held
\* is released, and a GET that has taken the lock is answered, also when
\* the tasks run or hang for ever.
C13_LockNeverHeldAcrossRun ==
    /\ [](\A w \in Workers : HoldsLock(w) <=> worker[w].pc \in LockedLines)
    /\ [](\A h \in Handlers :
            TASKS_LOCK = HandlerThread(h) <=>
                handler[h].pc \in {"l162", "l169", "l231"})
    /\ (TASKS_LOCK # LockFree) ~> (TASKS_LOCK = LockFree)
    /\ \A h \in Handlers : InGet(h) ~> Idle(h)

\* a GET /tasks is answered with two records that are running while both
\* children run
C13_Witness ==
    /\ \A w \in Workers : child[w].state = "running"
    /\ \E h \in Handlers :
          /\ response[h].kind = "tasks"
          /\ Len(response[h].tasks) = MaxTasks
          /\ \A k \in 1..MaxTasks : response[h].tasks[k].status = "running"

\* C14: a step in which a handler ends a POST /tasks that it does not admit
\* sends 400 with an error field, "invalid json" when the body is not
\* well-formed JSON; the handler never ends without a response.
C14_PostAlwaysAnswered ==
    [][\A h \in Handlers : \A body \in Bodies :
          PostReject(h, body) =>
              /\ response'[h].kind = "error"
              /\ response'[h].code = 400
              /\ body.kind = "malformed" =>
                    response'[h].error = "invalid json"]_vars

\* the workers started for task id, and the handlers about to start one
WorkersOf(id) == {w \in Workers : worker[w].pc # "unborn" /\ worker[w].task_id = id}
StartersOf(id) ==
    {h \in Handlers : handler[h].pc = "l233" /\ handler[h].task_id = id}

\* C15: every task in the registry has exactly one worker, started by the
\* handler that admitted it; a worker keeps its task and, once ended, does
\* nothing more; and a child is started only by a worker that has started
\* none before, so the agent runs at most once per task whatever its
\* outcome.
C15_NothingRetried ==
    /\ [](\A id \in TaskIds(TASKS) :
            Cardinality(WorkersOf(id)) + Cardinality(StartersOf(id)) = 1)
    /\ [][\A w \in Workers :
            /\ worker[w].pc # "unborn" => worker'[w].task_id = worker[w].task_id
            /\ Ended(w) => worker'[w] = worker[w] /\ child'[w] = child[w]
            /\ (child'[w].state = "running" /\ child[w].state # "running") =>
                  child[w].state = "none"
            /\ child[w].state \in {"exited", "killed"} =>
                  child'[w].state = child[w].state]_vars

\* both tasks have failed, one on a non-zero exit code and one on a timeout,
\* and both workers have returned
C15_Witness ==
    /\ \E w \in Workers :
          /\ worker[w].pc = "returned"
          /\ child[w].state = "exited" /\ child[w].returncode = 1
          /\ RecordOf(worker[w].task_id).status = "failed"
    /\ \E w \in Workers :
          /\ worker[w].pc = "returned" /\ child[w].state = "killed"
          /\ RecordOf(worker[w].task_id).status = "failed"

\* the second a timestamp of a record names
Seconds(ts) == ts.t

\* C16: in every state updated_at of a record is not earlier than its
\* created_at; and whenever no update of the record is in progress,
\* created_at <= started_at <= updated_at once started_at is set and
\* started_at <= completed_at <= updated_at once completed_at is set.
C16_TimestampsOrdered ==
    \A k \in 1..Len(TASKS) :
        LET rec == TASKS[k]
        IN  /\ Seconds(rec.updated_at) >= Seconds(rec.created_at)
            /\ Settled(rec.task_id) =>
                  /\ rec.started_at # None =>
                        /\ Seconds(rec.created_at) <= Seconds(rec.started_at)
                        /\ Seconds(rec.started_at) <= Seconds(rec.updated_at)
                  /\ rec.completed_at # None =>
                        /\ rec.started_at # None
                        /\ Seconds(rec.started_at) <= Seconds(rec.completed_at)
                        /\ Seconds(rec.completed_at) <= Seconds(rec.updated_at)

\* a task was created, started and completed in three different seconds,
\* and its worker has returned
C16_Witness ==
    \E w \in Workers :
        /\ worker[w].pc = "returned"
        /\ LET rec == RecordOf(worker[w].task_id)
           IN  /\ rec.completed_at # None
               /\ Seconds(rec.created_at) < Seconds(rec.started_at)
               /\ Seconds(rec.started_at) < Seconds(rec.completed_at)
               /\ Seconds(rec.completed_at) = Seconds(rec.updated_at)

\* t is s without its leading and trailing whitespace: s is whitespace, then
\* t, then whitespace, and t neither starts nor ends with whitespace
IsTrimOf(t, s) ==
    \E i \in 1..(Len(s) + 1) : \E j \in 0..Len(s) :
        /\ t = SubSeq(s, i, j)
        /\ \A k \in 1..(i - 1) : s[k] \in Whitespace
        /\ \A k \in (j + 1)..Len(s) : s[k] \in Whitespace
        /\ t # <<>> => t[1] \notin Whitespace /\ t[Len(t)] \notin Whitespace

\* the text given to the child of worker w after --text, and the part of it
\* before the blank line and the template
TextOf(w) == child[w].cmd.text
CoreOf(w) == SubSeq(TextOf(w), 1, Len(TextOf(w)) - Len(guardrails) - 2)
TaskTextOf(w) == RecordOf(worker[w].task_id).task.s
Started(w) == child[w].state # "none"

\* C17: the text given to every child that was started is the task text of
\* its record without leading and trailing whitespace, with every other
\* character as it is, then a blank line, then the fixed template; and two
\* task texts that have the same trimmed text are given the same prompt.
C17_PromptWrapsTrimmedTask ==
    /\ \A w \in Workers :
          Started(w) =>
              /\ Len(TextOf(w)) >= Len(guardrails) + 2
              /\ IsTrimOf(CoreOf(w), TaskTextOf(w))
              /\ SubSeq(TextOf(w), Len(CoreOf(w)) + 1, Len(CoreOf(w)) + 2)
                    = <<"\n", "\n">>
              /\ SubSeq(TextOf(w), Len(CoreOf(w)) + 3, Len(TextOf(w)))
                    = guardrails
    /\ \A w1, w2 \in Workers :
          (Started(w1) /\ Started(w2)
           /\ IsTrimOf(CoreOf(w1), TaskTextOf(w2))) =>
              TextOf(w1) = TextOf(w2)

\* two children were started for task texts that differ in their leading
\* and trailing whitespace only and that have whitespace inside
C17_Witness ==
    \E w1, w2 \in Workers :
        /\ Started(w1) /\ Started(w2)
        /\ TaskTextOf(w1) # TaskTextOf(w2)
        /\ TextOf(w1) = TextOf(w2)
        /\ CoreOf(w1) = <<"a", " ", "b">>

\* worker w finds no record for its task_id at the line it is on
FindsNoRecord(w, line) ==
    /\ worker[w].pc = line
    /\ worker'[w].pc # line
    /\ ~HasTask(TASKS, worker[w].task_id)

\* C18: a worker that finds no record at line 57 returns with the registry,
\* the directories and the children as they were, having made no directory
\* and started no child; a worker that finds no record at line 125 returns
\* with the registry as it was; in both cases the lock is free afterwards,
\* no exception is raised and the worker does nothing more.
C18_MissingRecordIsNoOp ==
    [][\A w \in Workers :
          /\ FindsNoRecord(w, "l56") =>
                /\ worker'[w].pc = "returned"
                /\ TASKS' = TASKS
                /\ TASKS_LOCK' = LockFree
                /\ tmpdirs' = tmpdirs
                /\ child' = child
                /\ worker'[w].tmpdir = 0
                /\ child'[w].state = "none"
          /\ FindsNoRecord(w, "l124") =>
                /\ worker'[w].pc = "returned"
                /\ TASKS' = TASKS
                /\ TASKS_LOCK' = LockFree
          /\ worker[w].pc = "returned" => worker'[w] = worker[w]]_vars

\* one worker has returned from line 59 and one from line 126, after its
\* child had exited
C18_Witness ==
    /\ \E w \in Workers :
          /\ worker[w].pc = "returned"
          /\ worker[w].task = None
          /\ ~HasTask(TASKS, worker[w].task_id)
    /\ \E w \in Workers :
          /\ worker[w].pc = "returned"
          /\ child[w].state = "exited"
          /\ ~HasTask(TASKS, worker[w].task_id)

\* the fields of a record that are set at admission
AdmissionFields ==
    {"task_id", "task", "model", "max_turns", "max_tool_repetitions",
     "timeout_seconds", "working_directory", "created_at"}

\* C19: in every step each record of the registry keeps its task_id, task,
\* model, max_turns, max_tool_repetitions, timeout_seconds,
\* working_directory and created_at; a record changes only in a step of the
\* worker of its own task, made inside that worker's update; and a record
\* enters the registry as the handler that admitted it built it.
C19_WorkerWritesOwnOutcomeOnly ==
    [][/\ Len(TASKS') >= Len(TASKS)
       /\ \A k \in 1..Len(TASKS) :
             /\ \A f \in AdmissionFields : TASKS'[k][f] = TASKS[k][f]
             /\ TASKS'[k] # TASKS[k] =>
                   \E w \in Workers :
                       /\ HoldsLock(w)
                       /\ worker[w].task_id = TASKS[k].task_id
                       /\ worker'[w].pc # worker[w].pc
       /\ \A k \in (Len(TASKS) + 1)..Len(TASKS') :
             \E h \in Handlers :
                 /\ handler[h].pc = "l231"
                 /\ TASKS'[k] = handler[h].record]_vars

\* a worker is in the middle of its terminal update while the record of
\* another task is running
C19_Witness ==
    \E w \in Workers :
        /\ worker[w].pc = "l130"
        /\ RecordOf(worker[w].task_id).status \in TERMINAL_STATUSES
        /\ \E k \in 1..Len(TASKS) :
              /\ TASKS[k].task_id # worker[w].task_id
              /\ TASKS[k].status = "running"

\* the positions of run_task after the write of the terminal status
AfterStatusWrite ==
    {"l128", "l129", "l130", "l131", "l132", "l133", "returned"}

\* C20: in every state where the record of a task is completed or failed,
\* its worker is past the "with tempfile.TemporaryDirectory()" block, its
\* child is not running, and every directory that exists is the directory
\* of another worker that is still inside its block: the directory of the
\* task was removed before the status was written.
C20_CleanupPrecedesCompletion ==
    \A w \in Workers :
        (worker[w].pc # "unborn"
         /\ HasTask(TASKS, worker[w].task_id)
         /\ RecordOf(worker[w].task_id).status \in TERMINAL_STATUSES) =>
            /\ worker[w].pc \in AfterStatusWrite
            /\ child[w].state \in {"none", "exited", "killed"}
            /\ \A d \in tmpdirs :
                  \E x \in Workers \ {w} : InRun(x) /\ worker[x].tmpdir = d

\* the record of a task that timed out is failed and its directory is gone,
\* while the child of another task runs in a directory of its own
C20_Witness ==
    \E w, x \in Workers :
        /\ child[w].state = "killed"
        /\ RecordOf(worker[w].task_id).status = "failed"
        /\ worker[w].tmpdir \notin tmpdirs
        /\ child[x].state = "running"
        /\ worker[x].tmpdir \in tmpdirs

====
